---- MODULE Spec2Model ----
(***************************************************************************)
(* NeuralHealth (src/medical3.py): accounts, doctor profiles, doctor to    *)
(* patient assignments and the analysis records with their review status,  *)
(* as kept in the sqlite tables users, doctors, doctor_patient and         *)
(* analysis_history, together with the Streamlit handlers that call them.  *)
(*                                                                         *)
(* A table is a sequence of rows in insertion order; AUTOINCREMENT ids are *)
(* the row positions (no row is ever deleted).  An SQL NULL / Python None  *)
(* is the empty tuple None and a present value v is the 1-tuple Some(v).   *)
(* datetime.now() returns a value later than that of every earlier call    *)
(* (two calls are separated by at least one database commit); now is the   *)
(* latest value it returned that was stored.                               *)
(***************************************************************************)
EXTENDS Integers, Sequences, FiniteSets, TLC

VARIABLES users, doctors, doctor_patient, analysis_history, session_state, now, last

vars == <<users, doctors, doctor_patient, analysis_history, session_state, now, last>>

-----------------------------------------------------------------------------
(* Bounds of the model *)

MaxUsers == 2
MaxRecords == 2
MaxAssignments == 1
MaxTime == 3
MaxEnts == 2
MaxChunks == 2
MaxReviews == 2

-----------------------------------------------------------------------------
(* Values *)

None == <<>>
Some(v) == <<v>>

Sessions == {1}

\* usernames are opaque to the program: the k-th account to be registered is given
\* the k-th name; a registration may also try a name already taken (the first), and
\* a login any name taken or the next, unregistered one
AllNames == <<"alice", "bob", "carol", "dave", "erin", "frank">>
Usernames == {AllNames[i] : i \in 1..MaxUsers}

\* what a user may type as a password: 6 characters, 5 characters, 7 characters
Passwords == {"secret", "abcde"}
LoginPasswords == {"secret", "hunter2"}

Statuses == {"pending", "approved", "disapproved"}

\* hashlib.sha256(password.encode()).hexdigest(): injective on the passwords used
hash_password(password) == "sha256:" \o password

\* the shortest password a registration accepts
MinPasswordLength == 6

\* mutant: a password of 5 characters is long enough
WeakPassword_five(new_password) == Len(new_password) < MinPasswordLength - 1

\* main, tab "Register": len(new_password) < 6
WeakPassword(new_password) == Len(new_password) < MinPasswordLength

Notes == {"", "looks fine"}

\* status strings a caller may pass to update_analysis_status
StatusArgs == Statuses \cup {"archived"}

\* ids a caller may pass to assign_doctor (doctor_id: the first doctors.id, which
\* resolves to no doctor while doctors is empty; patient_id: users.id) and to
\* update_analysis_status (analysis_history.id)
DoctorIdArgs == {1}
IdArgs == {1, 2}
AnalysisIdArgs == {1, 2}

-----------------------------------------------------------------------------
(* The linguistic analyzer's output for the texts a patient may submit:    *)
(* doc.ents (text, its whitespace-separated words, label_) and             *)
(* doc.noun_chunks (text and tokens).                                      *)

Ent(text, words, label) == [text |-> text, words |-> words, label |-> label]
Chunk(text, tokens) == [text |-> text, tokens |-> tokens]

Docs ==
  { [text |-> "",
     ents |-> <<>>,
     noun_chunks |-> <<>>],
    [text |-> "Fever and chest pain since COPD",
     ents |-> << Ent("Fever", <<"Fever">>, "PERSON"), Ent("COPD", <<"COPD">>, "ORG") >>,
     noun_chunks |-> << Chunk("Fever", <<"Fever">>), Chunk("chest pain", <<"chest", "pain">>),
                        Chunk("COPD", <<"COPD">>) >>] }

\* str.isupper() on the words that occur
isupper(word) == word \in {"COPD", "I"}

\* text[0].isupper() on the entity texts that occur
first_isupper(text) == text \in {"Fever", "COPD"}

\* str.lower() on the tokens that occur
lower(word) == IF word = "Fever" THEN "fever"
               ELSE IF word = "COPD" THEN "copd"
               ELSE IF word = "I" THEN "i"
               ELSE word

MedicalWords == {"pain", "ache", "discomfort", "swelling", "fever", "infection",
                 "inflammation", "disease", "syndrome", "condition", "symptom", "treatment"}

Range(seq) == {seq[i] : i \in DOMAIN seq}

KeepEnt(ent) ==
  \/ ent.label \in {"ORG", "GPE"} /\ \E i \in DOMAIN ent.words : isupper(ent.words[i])
  \/ ent.label = "CONDITION"
  \/ Len(ent.words) <= 3 /\ first_isupper(ent.text)

KeepChunk(chunk) == \E i \in DOMAIN chunk.tokens : lower(chunk.tokens[i]) \in MedicalWords

RECURSIVE KeptEnts(_)
\* the loop over doc.ents: the texts of the kept entities, in order
KeptEnts(ents) ==
  IF ents = <<>> THEN <<>>
  ELSE (IF KeepEnt(Head(ents)) THEN <<Head(ents).text>> ELSE <<>>) \o KeptEnts(Tail(ents))

RECURSIVE KeptChunks(_)
\* the loop over doc.noun_chunks: the texts of the kept chunks, in order
KeptChunks(chunks) ==
  IF chunks = <<>> THEN <<>>
  ELSE (IF KeepChunk(Head(chunks)) THEN <<Head(chunks).text>> ELSE <<>>)
         \o KeptChunks(Tail(chunks))

RECURSIVE fromkeys_last(_)
\* mutant: of the occurrences of a term the last is kept
fromkeys_last(seq) ==
  IF seq = <<>> THEN <<>>
  ELSE LET rest == fromkeys_last(Tail(seq))
       IN IF Head(seq) \in Range(rest) THEN rest ELSE <<Head(seq)>> \o rest

RECURSIVE fromkeys(_)
\* list(dict.fromkeys(seq)): first occurrences, in order
fromkeys(seq) ==
  IF seq = <<>> THEN <<>>
  ELSE LET init == fromkeys(SubSeq(seq, 1, Len(seq) - 1))
           x == seq[Len(seq)]
       IN IF x \in Range(init) THEN init ELSE Append(init, x)

extract_medical_keywords(doc) ==
  fromkeys(KeptEnts(doc.ents) \o KeptChunks(doc.noun_chunks))

RECURSIVE join(_, _)
\* sep.join(seq)
join(sep, seq) ==
  IF seq = <<>> THEN ""
  ELSE IF Len(seq) = 1 THEN seq[1]
  ELSE seq[1] \o sep \o join(sep, Tail(seq))

generate_summary(keywords) ==
  IF keywords = <<>>
    THEN "No specific medical terms were identified in the input."
    ELSE "Based on the analysis, the key medical conditions and symptoms include: "
           \o join(", ", keywords) \o "."

\* what the INSERT of create_doctor may do besides raising sqlite3.IntegrityError:
\* execute, or raise another sqlite3.Error (database is locked, disk I/O error),
\* which create_doctor does not catch.  The other store functions write in one
\* statement, so that their failure leaves every table as it was.
DbOutcomes == {"ok", "OperationalError"}

\* what llm(prompt) may do: return a text, or raise
Responses == {"Disclaimer: not medical advice. Rest and fluids."}
LLMError == "upstream unavailable"
LLMOutcomes == {[ok |-> TRUE, text |-> r] : r \in Responses}
                 \cup {[ok |-> FALSE, text |-> LLMError]}

-----------------------------------------------------------------------------
(* The store: one operator per function of the source.  An operator that   *)
(* writes returns the new table and the function's return value.           *)

\* the value the next call of datetime.now() returns
datetime_now == now + 1

\* username TEXT UNIQUE NOT NULL
UsernameTaken(username) == \E i \in DOMAIN users : users[i].username = username

\* mutant: the insert does not look at the names already stored
create_user_no_unique(username, password, role) ==
  [users |-> Append(users, [id |-> Len(users) + 1,
                            username |-> username,
                            password |-> hash_password(password),
                            role |-> role]),
   ret |-> Some(Len(users) + 1)]

create_user(username, password, role) ==
  IF UsernameTaken(username)
    THEN [users |-> users, ret |-> None]
    ELSE [users |-> Append(users, [id |-> Len(users) + 1,
                                   username |-> username,
                                   password |-> hash_password(password),
                                   role |-> role]),
          ret |-> Some(Len(users) + 1)]

\* doctors.user_id INTEGER UNIQUE (full_name, a str of st.text_input, is never NULL)
create_doctor(user_id, full_name, specialization) ==
  IF \E i \in DOMAIN doctors : doctors[i].user_id = user_id
    THEN [doctors |-> doctors, ret |-> FALSE]
    ELSE [doctors |-> Append(doctors, [id |-> Len(doctors) + 1,
                                       user_id |-> user_id,
                                       full_name |-> full_name,
                                       specialization |-> specialization]),
          ret |-> TRUE]

\* mutant: the stored credential is not compared
verify_user_any_password(username, password) ==
  LET rows == {i \in DOMAIN users : users[i].username = username}
  IN IF rows = {} THEN None
     ELSE LET result == users[CHOOSE i \in rows : \A j \in rows : i <= j]
          IN Some([id |-> result.id, role |-> result.role])

verify_user(username, password) ==
  LET rows == {i \in DOMAIN users : users[i].username = username}
  IN IF rows = {} THEN None
     ELSE LET result == users[CHOOSE i \in rows : \A j \in rows : i <= j]
          IN IF result.password = hash_password(password)
               THEN Some([id |-> result.id, role |-> result.role])
               ELSE None

\* mutant: INSERT OR REPLACE, the row of the pair is written again
assign_doctor_replace(doctor_id, patient_id) ==
  [doctor_patient |->
     {a \in doctor_patient : ~(a.doctor_id = doctor_id /\ a.patient_id = patient_id)}
       \cup {[doctor_id |-> doctor_id, patient_id |-> patient_id,
               assignment_date |-> datetime_now]},
   ret |-> TRUE]

\* PRIMARY KEY (doctor_id, patient_id); the foreign keys are not enforced
assign_doctor(doctor_id, patient_id) ==
  IF \E a \in doctor_patient : a.doctor_id = doctor_id /\ a.patient_id = patient_id
    THEN [doctor_patient |-> doctor_patient, ret |-> FALSE]
    ELSE [doctor_patient |-> doctor_patient \cup
                               {[doctor_id |-> doctor_id, patient_id |-> patient_id,
                                 assignment_date |-> datetime_now]},
          ret |-> TRUE]

\* the (id, username) rows of users joined with doctor_patient
get_doctor_patients(doctor_id) ==
  {<<users[i].id, users[i].username>> : i \in
     {j \in DOMAIN users : \E a \in doctor_patient :
         a.doctor_id = doctor_id /\ a.patient_id = users[j].id}}

\* mutant: an account without a profile is its own doctor
get_doctor_id_fallback(user_id) ==
  LET rows == {i \in DOMAIN doctors : doctors[i].user_id = user_id}
  IN IF rows = {} THEN Some(user_id)
     ELSE Some(doctors[CHOOSE i \in rows : \A j \in rows : i <= j].id)

get_doctor_id(user_id) ==
  LET rows == {i \in DOMAIN doctors : doctors[i].user_id = user_id}
  IN IF rows = {} THEN None ELSE Some(doctors[CHOOSE i \in rows : \A j \in rows : i <= j].id)

\* mutant: a decision, once taken, is final (only a pending record is updated)
update_analysis_status_final(analysis_id, status, doctor_notes) ==
  [i \in DOMAIN analysis_history |->
     IF analysis_history[i].id = analysis_id /\ analysis_history[i].status = "pending"
       THEN [analysis_history[i] EXCEPT !.status = status,
                                        !.doctor_notes = Some(doctor_notes),
                                        !.last_modified = Some(datetime_now)]
       ELSE analysis_history[i]]

\* mutant: the update does not stamp last_modified again once it is set
update_analysis_status_no_stamp(analysis_id, status, doctor_notes) ==
  [i \in DOMAIN analysis_history |->
     IF analysis_history[i].id = analysis_id
       THEN [analysis_history[i] EXCEPT
               !.status = status,
               !.doctor_notes = Some(doctor_notes),
               !.last_modified = IF @ = None THEN Some(datetime_now) ELSE @]
       ELSE analysis_history[i]]

\* mutant: notes a record already has are kept (COALESCE(doctor_notes, ?))
update_analysis_status_keep_notes(analysis_id, status, doctor_notes) ==
  [i \in DOMAIN analysis_history |->
     IF analysis_history[i].id = analysis_id
       THEN [analysis_history[i] EXCEPT
               !.status = status,
               !.doctor_notes = IF @ = None THEN Some(doctor_notes) ELSE @,
               !.last_modified = Some(datetime_now)]
       ELSE analysis_history[i]]

\* mutant: the UPDATE has no WHERE clause
update_analysis_status_all_rows(analysis_id, status, doctor_notes) ==
  [i \in DOMAIN analysis_history |->
     [analysis_history[i] EXCEPT !.status = status,
                                  !.doctor_notes = Some(doctor_notes),
                                  !.last_modified = Some(datetime_now)]]

\* mutant: the notes are appended to those the record has
update_analysis_status_append_notes(analysis_id, status, doctor_notes) ==
  [i \in DOMAIN analysis_history |->
     IF analysis_history[i].id = analysis_id
       THEN [analysis_history[i] EXCEPT
               !.status = status,
               !.doctor_notes = IF @ = None THEN Some(doctor_notes)
                                ELSE Some(@[1] \o doctor_notes),
               !.last_modified = Some(datetime_now)]
       ELSE analysis_history[i]]

update_analysis_status(analysis_id, status, doctor_notes) ==
  [i \in DOMAIN analysis_history |->
     IF analysis_history[i].id = analysis_id
       THEN [analysis_history[i] EXCEPT !.status = status,
                                        !.doctor_notes = Some(doctor_notes),
                                        !.last_modified = Some(datetime_now)]
       ELSE analysis_history[i]]

\* mutant: the status column has no default, the new row's status is empty
save_analysis_no_default(user_id, medical_terms, summary, recommendations) ==
  Append(analysis_history, [id |-> Len(analysis_history) + 1,
                            user_id |-> user_id,
                            analysis_date |-> datetime_now,
                            medical_terms |-> medical_terms,
                            summary |-> summary,
                            recommendations |-> recommendations,
                            doctor_id |-> None,
                            status |-> "",
                            doctor_notes |-> None,
                            last_modified |-> None])

\* status TEXT DEFAULT 'pending'; doctor_id, doctor_notes, last_modified are left NULL
save_analysis(user_id, medical_terms, summary, recommendations) ==
  Append(analysis_history, [id |-> Len(analysis_history) + 1,
                            user_id |-> user_id,
                            analysis_date |-> datetime_now,
                            medical_terms |-> medical_terms,
                            summary |-> summary,
                            recommendations |-> recommendations,
                            doctor_id |-> None,
                            status |-> "pending",
                            doctor_notes |-> None,
                            last_modified |-> None])

RECURSIVE OrderByDateAsc(_)
\* mutant: ORDER BY analysis_date, oldest first
OrderByDateAsc(rows) ==
  IF rows = <<>> THEN <<>>
  ELSE LET sorted == OrderByDateAsc(SubSeq(rows, 1, Len(rows) - 1))
           r == rows[Len(rows)]
           k == Cardinality({i \in DOMAIN sorted : sorted[i].analysis_date <= r.analysis_date})
       IN SubSeq(sorted, 1, k) \o <<r>> \o SubSeq(sorted, k + 1, Len(sorted))

RECURSIVE OrderByDateDesc(_)
\* ORDER BY analysis_date DESC of a sequence of rows (insertion sort, ties in rowid order)
OrderByDateDesc(rows) ==
  IF rows = <<>> THEN <<>>
  ELSE LET sorted == OrderByDateDesc(SubSeq(rows, 1, Len(rows) - 1))
           r == rows[Len(rows)]
           k == Cardinality({i \in DOMAIN sorted : sorted[i].analysis_date >= r.analysis_date})
       IN SubSeq(sorted, 1, k) \o <<r>> \o SubSeq(sorted, k + 1, Len(sorted))

\* mutant: the query has no WHERE clause
WhereUser_all(rows, user_id) == rows

RECURSIVE WhereUser(_, _)
\* WHERE user_id = ? over a sequence of rows
WhereUser(rows, user_id) ==
  IF rows = <<>> THEN <<>>
  ELSE (IF Head(rows).user_id = user_id THEN <<Head(rows)>> ELSE <<>>)
         \o WhereUser(Tail(rows), user_id)

\* the selected columns, in the order of the SELECT
get_user_history(user_id) ==
  LET rows == OrderByDateDesc(WhereUser(analysis_history, user_id))
  IN [i \in DOMAIN rows |-> <<rows[i].analysis_date, rows[i].medical_terms, rows[i].summary,
                              rows[i].recommendations, rows[i].status, rows[i].id,
                              rows[i].doctor_notes>>]

-----------------------------------------------------------------------------
(* The handlers.  last records the handler that ran, the session it ran    *)
(* in (0: none) and what it returned (as Python prints it) or showed; for  *)
(* a review update also the analysis id it was given and the status and    *)
(* the notes that record had before ("", None: no such record), and for a  *)
(* login the id of the account verify_user returned (0: None).             *)

Call(op, s, ret) ==
  [op |-> op, session |-> s, ret |-> ret, id |-> 0, was |-> "", noted |-> None]

StatusOf(analysis_id) ==
  IF analysis_id \in DOMAIN analysis_history THEN analysis_history[analysis_id].status ELSE ""

NotesOf(analysis_id) ==
  IF analysis_id \in DOMAIN analysis_history
    THEN analysis_history[analysis_id].doctor_notes ELSE None

ReviewCall(op, s, ret, analysis_id) ==
  [op |-> op, session |-> s, ret |-> ret, id |-> analysis_id,
   was |-> StatusOf(analysis_id), noted |-> NotesOf(analysis_id)]

LoggedOut == [user_id |-> None, role |-> None]

Init ==
  /\ users = <<>>
  /\ doctors = <<>>
  /\ doctor_patient = {}
  /\ analysis_history = <<>>
  /\ session_state = [s \in Sessions |-> LoggedOut]
  /\ now = 0
  /\ last = Call("init_db", 0, "")

\* main, tab "Register", button "Register"; db is what the database does with
\* the INSERT of create_doctor in this run
RegisterSubmit(s, reg_role, new_username, new_password, confirm_password, db) ==
  /\ session_state[s].user_id = None
  /\   LET created == create_user(new_username, new_password,
                                  IF reg_role = "Doctor" THEN "doctor" ELSE "patient")
           profile == create_doctor(created.ret[1], "Dr Rho", "cardiology")
       IN IF new_password # confirm_password
            THEN /\ last' = Call("register", s, "Passwords do not match")
                 /\ UNCHANGED <<users, doctors>>
          ELSE IF WeakPassword(new_password)
            THEN /\ last' = Call("register", s, "Password must be at least 6 characters long")
                 /\ UNCHANGED <<users, doctors>>
          ELSE IF created.ret = None
            THEN /\ last' = Call("register", s, "Username already exists")
                 /\ UNCHANGED <<users, doctors>>
          ELSE /\ Len(users) < MaxUsers
               /\ users' = created.users
               /\ IF reg_role = "Doctor" /\ db # "ok"
                    THEN /\ doctors' = doctors
                         /\ last' = Call("register", s, "sqlite3." \o db)
                  ELSE IF reg_role = "Doctor"
                    THEN /\ doctors' = profile.doctors
                         /\ last' = Call("register", s,
                                         IF profile.ret
                                           THEN "Doctor registration successful! Please login."
                                           ELSE "Error creating doctor profile")
                    ELSE /\ doctors' = doctors
                         /\ last' = Call("register", s,
                                         "Patient registration successful! Please login.")
  /\ UNCHANGED <<doctor_patient, analysis_history, session_state, now>>

Register(s) ==
  \E reg_role \in {"Patient", "Doctor"},
     new_username \in {n \in Usernames : n \in {AllNames[1], AllNames[Len(users) + 1]}},
     new_password \in Passwords :
   \E confirm_password \in {w \in Passwords : w = new_password \/ ~WeakPassword(new_password)} :
   \E db \in {o \in DbOutcomes : o = "ok" \/ (reg_role = "Doctor" /\ confirm_password = new_password
                                               /\ ~UsernameTaken(new_username))} :
    RegisterSubmit(s, reg_role, new_username, new_password, confirm_password, db)

\* mutant: a username that is not registered is told so
login_outcome_enumerating(tab_role, username, password) ==
  LET user == verify_user(username, password)
  IN IF user # None /\ user[1].role = tab_role
       THEN [user |-> user, message |-> "Login successful!"]
     ELSE IF ~UsernameTaken(username)
       THEN [user |-> None, message |-> "Unknown username"]
     ELSE [user |-> None, message |-> "Invalid username or password"]

\* mutant: the tab does not look at the role of the account
login_outcome_any_tab(tab_role, username, password) ==
  LET user == verify_user(username, password)
  IN IF user # None
       THEN [user |-> user, message |-> "Login successful!"]
       ELSE [user |-> None, message |-> "Invalid username or password"]

\* what the Login button of a tab makes of verify_user's result: the account it
\* logs in (None: the session stays as it is) and the message it shows
login_outcome(tab_role, username, password) ==
  LET user == verify_user(username, password)
  IN IF user # None /\ user[1].role = tab_role
       THEN [user |-> user, message |-> "Login successful!"]
       ELSE [user |-> None, message |-> "Invalid username or password"]

\* main, tabs "Patient Login" and "Doctor Login", button "Login"
Login(s, tab_role) ==
  /\ session_state[s].user_id = None
  /\ \E username \in {n \in Usernames : \E i \in 1..(Len(users) + 1) : n = AllNames[i]} :
     \E password \in {w \in LoginPasswords :
                        hash_password(w) \in {users[i].password : i \in DOMAIN users}
                          \/ username = AllNames[1]} :
       LET outcome == login_outcome(tab_role, username, password)
       IN /\ session_state' = IF outcome.user # None
                                THEN [session_state EXCEPT
                                        ![s] = [user_id |-> Some(outcome.user[1].id),
                                                role |-> Some(tab_role)]]
                                ELSE session_state
          /\ last' = [Call("login", s, outcome.message) EXCEPT
                        !.id = LET user == verify_user(username, password)
                               IN IF user = None THEN 0 ELSE user[1].id]
  /\ UNCHANGED <<users, doctors, doctor_patient, analysis_history, now>>

PatientLogin(s) == Login(s, "patient")

DoctorLogin(s) == Login(s, "doctor")

\* main, sidebar button "Logout"
Logout(s) ==
  /\ session_state[s].user_id # None
  /\ session_state' = [session_state EXCEPT ![s] = LoggedOut]
  /\ last' = Call("logout", s, "")
  /\ UNCHANGED <<users, doctors, doctor_patient, analysis_history, now>>

\* mutant: the record is saved before the recommendation model is called
AnalyzeSubmit_save_first(s, doc, llm) ==
  /\ session_state[s].user_id # None
  /\ session_state[s].role # Some("doctor")
  /\   LET keywords == extract_medical_keywords(doc)
           summary == generate_summary(keywords)
       IN IF doc.text = ""
            THEN /\ last' = Call("analyze", s, "")
                 /\ UNCHANGED <<analysis_history, now>>
          ELSE /\ Len(analysis_history) < MaxRecords
               /\ now < MaxTime
               /\ analysis_history' = save_analysis(session_state[s].user_id[1],
                                                    join(", ", keywords), summary,
                                                    IF llm.ok THEN llm.text ELSE "")
               /\ now' = datetime_now
               /\ last' = Call("analyze", s,
                               IF llm.ok THEN "Analysis Results"
                               ELSE "An error occurred during analysis: " \o llm.text)
  /\ UNCHANGED <<users, doctors, doctor_patient, session_state>>

\* patient_interface, page "New Analysis", button "Analyze": llm is what the
\* recommendation model does with the prompt in this run
AnalyzeSubmit(s, doc, llm) ==
  /\ session_state[s].user_id # None
  /\ session_state[s].role # Some("doctor")
  /\   LET keywords == extract_medical_keywords(doc)
           summary == generate_summary(keywords)
       IN IF doc.text = ""
            THEN /\ last' = Call("analyze", s, "")
                 /\ UNCHANGED <<analysis_history, now>>
          ELSE IF ~llm.ok
            THEN /\ last' = Call("analyze", s,
                                 "An error occurred during analysis: " \o llm.text)
                 /\ UNCHANGED <<analysis_history, now>>
          ELSE /\ Len(analysis_history) < MaxRecords
               /\ now < MaxTime
               /\ analysis_history' = save_analysis(session_state[s].user_id[1],
                                                    join(", ", keywords), summary, llm.text)
               /\ now' = datetime_now
               /\ last' = Call("analyze", s, "Analysis Results")
  /\ UNCHANGED <<users, doctors, doctor_patient, session_state>>

Analyze(s) == \E doc \in Docs, llm \in LLMOutcomes : AnalyzeSubmit(s, doc, llm)

\* the expanders of doctor_interface that render before
\* ["pending", "approved", "disapproved"].index(current_status) raises
Rendered(history) ==
  {i \in DOMAIN history : \A j \in 1..i : history[j][5] \in Statuses}

\* doctor_interface, a run in which no button is pressed: what the dashboard shows
DoctorDashboard(s) ==
  /\ session_state[s].user_id # None
  /\ session_state[s].role = Some("doctor")
  /\ LET doctor_id == get_doctor_id(session_state[s].user_id[1])
     IN last' = Call("doctor_interface", s,
                     IF doctor_id = None THEN "Doctor account not properly configured"
                     ELSE IF get_doctor_patients(doctor_id[1]) = {}
                       THEN "No patients assigned yet"
                     ELSE "Select Patient")
  /\ UNCHANGED <<users, doctors, doctor_patient, analysis_history, session_state, now>>

\* doctor_interface, button "Update Review" of expander i of the selected patient
UpdateReviewClick(s, selected_patient, i, new_status, doctor_notes) ==
  /\ session_state[s].user_id # None
  /\ session_state[s].role = Some("doctor")
  /\ now < MaxTime
  /\ LET doctor_id == get_doctor_id(session_state[s].user_id[1])
     IN /\ doctor_id # None
        /\ selected_patient \in get_doctor_patients(doctor_id[1])
        /\ LET history == get_user_history(selected_patient[1])
           IN /\ i \in Rendered(history)
              /\ analysis_history' =
                   update_analysis_status(history[i][6], new_status, doctor_notes)
              /\ last' = ReviewCall("update_review", s, "Review updated successfully",
                                    history[i][6])
  /\ now' = datetime_now
  /\ UNCHANGED <<users, doctors, doctor_patient, session_state>>

UpdateReview(s) ==
  \E u \in DOMAIN users, i \in 1..Len(analysis_history),
     new_status \in Statuses, doctor_notes \in Notes :
    UpdateReviewClick(s, <<users[u].id, users[u].username>>, i, new_status, doctor_notes)

\* assign_doctor called with two ids
AssignDoctorCall(doctor_id, patient_id) ==
  /\ LET r == assign_doctor(doctor_id, patient_id)
     IN /\ Cardinality(r.doctor_patient) <= MaxAssignments
        /\ r.ret => now < MaxTime
        /\ doctor_patient' = r.doctor_patient
        /\ now' = IF r.ret THEN datetime_now ELSE now
        /\ last' = Call("assign_doctor", 0, IF r.ret THEN "True" ELSE "False")
  /\ UNCHANGED <<users, doctors, analysis_history, session_state>>

AssignDoctor ==
  \E doctor_id \in DoctorIdArgs, patient_id \in IdArgs : AssignDoctorCall(doctor_id, patient_id)

\* update_analysis_status called with any arguments in the run of session s; its
\* caller, doctor_interface, runs while the session's role is doctor
UpdateAnalysisStatusCall(s, analysis_id, status, doctor_notes) ==
  /\ session_state[s].role = Some("doctor")
  /\ now < MaxTime
  /\ analysis_history' = update_analysis_status(analysis_id, status, doctor_notes)
  /\ now' = IF analysis_history' # analysis_history THEN datetime_now ELSE now
  /\ last' = ReviewCall("update_analysis_status", s, "None", analysis_id)
  /\ UNCHANGED <<users, doctors, doctor_patient, session_state>>

UpdateAnalysisStatus(s) ==
  \E analysis_id \in AnalysisIdArgs, status \in StatusArgs, doctor_notes \in Notes :
    UpdateAnalysisStatusCall(s, analysis_id, status, doctor_notes)

Next ==
  \/ \E s \in Sessions : Register(s)
  \/ \E s \in Sessions : PatientLogin(s)
  \/ \E s \in Sessions : DoctorLogin(s)
  \/ \E s \in Sessions : Logout(s)
  \/ \E s \in Sessions : Analyze(s)
  \/ \E s \in Sessions : DoctorDashboard(s)
  \/ \E s \in Sessions : UpdateReview(s)
  \/ AssignDoctor
  \/ \E s \in Sessions : UpdateAnalysisStatus(s)

Spec == Init /\ [][Next]_vars

-----------------------------------------------------------------------------
(* extract_medical_keywords on its own: the analyzer has produced a doc    *)
(* with up to MaxEnts entities and MaxChunks noun chunks, then the         *)
(* function is called.  last records the call, the doc it was given and    *)
(* the list it returned.                                                   *)

EntPool == { Ent("Fever", <<"Fever">>, "PERSON"),
             Ent("COPD", <<"COPD">>, "ORG"),
             Ent("two days", <<"two", "days">>, "DATE") }

ChunkPool == { Chunk("Fever", <<"Fever">>),
               Chunk("chest pain", <<"chest", "pain">>),
               Chunk("COPD", <<"COPD">>) }

SeqsUpTo(S, n) == UNION {[1..k -> S] : k \in 0..n}

ExtractDocs ==
  {[text |-> "narrative", ents |-> e, noun_chunks |-> c] :
     e \in SeqsUpTo(EntPool, MaxEnts), c \in SeqsUpTo(ChunkPool, MaxChunks)}

ExtractInit ==
  /\ users = <<>>
  /\ doctors = <<>>
  /\ doctor_patient = {}
  /\ analysis_history = <<>>
  /\ session_state = [s \in Sessions |-> LoggedOut]
  /\ now = 0
  /\ last \in {[op |-> "nlp", doc |-> d, ret |-> <<>>] : d \in ExtractDocs}

ExtractCall ==
  /\ last.op = "nlp"
  /\ last' = [last EXCEPT !.op = "extract_medical_keywords",
                          !.ret = extract_medical_keywords(last.doc)]
  /\ UNCHANGED <<users, doctors, doctor_patient, analysis_history, session_state, now>>

ExtractNext == ExtractCall

ExtractSpec == ExtractInit /\ [][ExtractNext]_vars

-----------------------------------------------------------------------------
(* Two doctors at their dashboards.  Each browser session runs              *)
(* doctor_interface in a thread of its own, so that between the             *)
(* get_user_history of one run and its update_analysis_status the run of    *)
(* the other session may read and write.  A session holds, besides user_id  *)
(* and role, the call its run is about to make (pending: the analysis id,   *)
(* the values of the widgets status_<id> and notes_<id>, and the status and *)
(* notes the run read) and the last call it made (written).                 *)

ReviewSessions == {1, 2}

ReviewDoc == CHOOSE doc \in Docs : doc.text # ""

\* two doctors and a patient registered, both doctors assigned to the patient,
\* a record of the patient stored, and each doctor logged in
ReviewInit ==
  /\ users = [i \in 1..3 |->
                [id |-> i, username |-> AllNames[i], password |-> hash_password("secret"),
                 role |-> IF i = 3 THEN "patient" ELSE "doctor"]]
  /\ doctors = [i \in 1..2 |->
                  [id |-> i, user_id |-> i, full_name |-> "Dr Rho",
                   specialization |-> "cardiology"]]
  /\ doctor_patient = {[doctor_id |-> i, patient_id |-> 3, assignment_date |-> i] :
                         i \in 1..2}
  /\ analysis_history =
       << [id |-> 1, user_id |-> 3, analysis_date |-> 3,
           medical_terms |-> join(", ", extract_medical_keywords(ReviewDoc)),
           summary |-> generate_summary(extract_medical_keywords(ReviewDoc)),
           recommendations |-> CHOOSE r \in Responses : TRUE,
           doctor_id |-> None, status |-> "pending", doctor_notes |-> None,
           last_modified |-> None] >>
  /\ session_state = [s \in ReviewSessions |->
                        [user_id |-> Some(s), role |-> Some("doctor"),
                         pending |-> None, written |-> None]]
  /\ now = 3
  /\ last = Call("login", 2, "Login successful!")

\* doctor_interface up to the button of expander i: the run has read the history
\* of the selected patient and holds the values of the two widgets
ReadForReview(s, selected_patient, i, new_status, doctor_notes) ==
  /\ session_state[s].role = Some("doctor")
  /\ session_state[s].pending = None
  /\ LET doctor_id == get_doctor_id(session_state[s].user_id[1])
     IN /\ doctor_id # None
        /\ selected_patient \in get_doctor_patients(doctor_id[1])
        /\ LET history == get_user_history(selected_patient[1])
           IN /\ i \in Rendered(history)
              /\ session_state' =
                   [session_state EXCEPT
                      ![s].pending = Some([analysis_id |-> history[i][6],
                                           status |-> new_status,
                                           doctor_notes |-> doctor_notes,
                                           seen |-> <<history[i][5], history[i][7]>>])]
  /\ UNCHANGED <<users, doctors, doctor_patient, analysis_history, now, last>>

\* doctor_interface, "Update Review" pressed: update_analysis_status with what
\* the run holds
CommitReview(s) ==
  /\ session_state[s].pending # None
  /\ now < analysis_history[1].analysis_date + MaxReviews
  /\ LET call == session_state[s].pending[1]
     IN /\ analysis_history' =
             update_analysis_status(call.analysis_id, call.status, call.doctor_notes)
        /\ last' = ReviewCall("update_review", s, "Review updated successfully",
                              call.analysis_id)
  /\ now' = datetime_now
  /\ session_state' = [session_state EXCEPT ![s].pending = None,
                                            ![s].written = session_state[s].pending]
  /\ UNCHANGED <<users, doctors, doctor_patient>>

ReviewNext ==
  \/ \E s \in ReviewSessions, u \in DOMAIN users, i \in 1..Len(analysis_history),
        new_status \in Statuses, doctor_notes \in Notes :
       ReadForReview(s, <<users[u].id, users[u].username>>, i, new_status, doctor_notes)
  \/ \E s \in ReviewSessions : CommitReview(s)

ReviewSpec == ReviewInit /\ [][ReviewNext]_vars

-----------------------------------------------------------------------------
(* Properties *)

Assigned(doctor_id, patient_id) ==
  \E a \in doctor_patient : a.doctor_id = doctor_id /\ a.patient_id = patient_id

IsDoctorSession(s) ==
  s \in Sessions /\ session_state[s].user_id # None /\ session_state[s].role = Some("doctor")

\* l records a review update: a dashboard click or a call of update_analysis_status
IsReview(l) == l.op \in {"update_review", "update_analysis_status"}

\* the review step that addresses record analysis_id with status t and notes n
ReviewStep(analysis_id, t, n) ==
  \/ \E s \in Sessions : UpdateAnalysisStatusCall(s, analysis_id, t, n)
  \/ \E s \in Sessions, u \in DOMAIN users, i \in 1..Len(analysis_history) :
       /\ UpdateReviewClick(s, <<users[u].id, users[u].username>>, i, t, n)
       /\ get_user_history(users[u].id)[i][6] = analysis_id

\* C1: a record is changed in the run of a doctor's session only if, at that time,
\* the doctor is assigned to the patient who owns the record; without the
\* assignment the record stays as it is.
C1_ReviewRequiresAssignment ==
  [][\A i \in DOMAIN analysis_history :
       (analysis_history'[i] # analysis_history[i] /\ IsDoctorSession(last'.session))
         => LET doctor_id == get_doctor_id(session_state[last'.session].user_id[1])
            IN /\ doctor_id # None
               /\ Assigned(doctor_id[1], analysis_history[i].user_id)]_vars

\* C2: a record that no review has touched (last_modified is NULL) has status
\* pending and no notes, whatever was submitted.
C2_PendingUntilReviewed ==
  \A i \in DOMAIN analysis_history :
    analysis_history[i].last_modified = None
      => analysis_history[i].status = "pending" /\ analysis_history[i].doctor_notes = None

C2_Witness ==
  \E i \in DOMAIN analysis_history :
    /\ analysis_history[i].last_modified = None
    /\ analysis_history[i].status = "pending"
    /\ last.op = "analyze" /\ last.ret = "Analysis Results"

\* C3: an update with a status t of {pending, approved, disapproved} on a record
\* whose status is any s of them is accepted and leaves the record with status t:
\* each of the six transitions between distinct statuses is permitted, none is final.
C3_AllTransitionsPermitted ==
  [][IsReview(last') =>
       \A id \in DOMAIN analysis_history \cap {last'.id}, t \in Statuses, n \in Notes :
         (analysis_history[id].status \in Statuses /\ ReviewStep(id, t, n))
           => analysis_history'[id].status = t]_vars

C3_Witness ==
  \E i \in DOMAIN analysis_history :
    /\ last.op = "update_analysis_status" /\ last.id = i
    /\ last.was = "disapproved"
    /\ analysis_history[i].status = "pending"

\* C4: a review update with status t and notes n leaves the addressed record with
\* status t, notes n and last_modified the time of the update, which is later than
\* the record's creation and than its previous last_modified.
C4_UpdateSetsFields ==
  [][IsReview(last') =>
       \A id \in DOMAIN analysis_history \cap {last'.id}, t \in Statuses, n \in Notes :
         ReviewStep(id, t, n)
           => LET old == analysis_history[id]
                  new == analysis_history'[id]
              IN /\ new.status = t
                 /\ new.doctor_notes = Some(n)
                 /\ new.last_modified = Some(now')
                 /\ now' > old.analysis_date
                 /\ old.last_modified # None => now' > old.last_modified[1]]_vars

\* a record reviewed through the doctor's dashboard
C4_Witness ==
  \E i \in DOMAIN analysis_history :
    /\ last.op = "update_review" /\ last.id = i
    /\ analysis_history[i].status = "approved"
    /\ analysis_history[i].doctor_notes = Some("looks fine")
    /\ analysis_history[i].last_modified = Some(now)

\* C5: every record's status is pending, approved or disapproved.
C5_StatusAlwaysValid ==
  \A i \in DOMAIN analysis_history : analysis_history[i].status \in Statuses

\* C6: an update whose analysis id resolves to no record gives its caller an error,
\* something other than what a successful update returns.
C6_UnknownAnalysisReported ==
  (last.op = "update_analysis_status" /\ last.id \notin DOMAIN analysis_history)
    => last.ret # "None"

\* C7: a submission stores a record only when the recommendation model returned:
\* the stored record then holds the terms and the summary of one submitted text and
\* the text the model returned; when the model fails the stored records are those
\* of before, and no other step adds a record.
C7_NothingPersistedOnGatewayFailure ==
  [][/\ (last'.op = "analyze" /\ last'.ret # "Analysis Results")
          => analysis_history' = analysis_history
     /\ Len(analysis_history') # Len(analysis_history)
          => /\ last'.op = "analyze" /\ last'.ret = "Analysis Results"
             /\ SubSeq(analysis_history', 1, Len(analysis_history)) = analysis_history
             /\ Len(analysis_history') = Len(analysis_history) + 1
             /\ LET new == analysis_history'[Len(analysis_history')]
                IN /\ new.recommendations \in Responses
                   /\ \E doc \in Docs :
                        /\ doc.text # ""
                        /\ new.medical_terms = join(", ", extract_medical_keywords(doc))
                        /\ new.summary = generate_summary(extract_medical_keywords(doc))]_vars

\* a failed submission after a stored one
C7_Witness ==
  /\ last.op = "analyze"
  /\ last.ret = "An error occurred during analysis: " \o LLMError
  /\ Len(analysis_history) = 1

UserIds == {users[u].id : u \in DOMAIN users}

\* C8: a patient's history lists the records newest first: of two adjacent rows the
\* first has the later or the same analysis_date.
C8_HistoryNewestFirst ==
  \A p \in UserIds :
    LET history == get_user_history(p)
    IN \A i \in 1..(Len(history) - 1) : history[i][1] >= history[i + 1][1]

C8_Witness ==
  \E p \in UserIds :
    LET history == get_user_history(p)
    IN Len(history) >= 2 /\ history[1][1] > history[2][1]

HistoryIds(p) == LET history == get_user_history(p) IN {history[i][6] : i \in DOMAIN history}

\* C9: a patient's history holds each record of that patient once and no record of
\* anybody else; the patient a record belongs to (its user_id) is the one in whose
\* session it was submitted, and no later step changes it.
C9_HistoryIsOwnRecords ==
  /\ [](\A p \in UserIds :
          LET history == get_user_history(p)
              ids == {history[i][6] : i \in DOMAIN history}
          IN /\ ids = {i \in DOMAIN analysis_history : analysis_history[i].user_id = p}
             /\ Len(history) = Cardinality(ids))
  /\ [][/\ \A i \in DOMAIN analysis_history :
             analysis_history'[i].user_id = analysis_history[i].user_id
        /\ Len(analysis_history') > Len(analysis_history)
             => /\ last'.session \in Sessions
                /\ Some(analysis_history'[Len(analysis_history')].user_id)
                     = session_state[last'.session].user_id]_vars

\* two patients, each with a record
C9_Witness ==
  \E i, j \in DOMAIN analysis_history :
    /\ analysis_history[i].user_id # analysis_history[j].user_id
    /\ HistoryIds(analysis_history[i].user_id) = {i}

\* C10: no two accounts have the same username: a registration with a name that is
\* taken (and an acceptable password) is answered "Username already exists" and
\* leaves users and doctors as they are.
C10_UniqueUsernames ==
  /\ [](\A i, j \in DOMAIN users : users[i].username = users[j].username => i = j)
  /\ [][last'.op = "register" =>
          /\ last'.ret = "Username already exists" => users' = users /\ doctors' = doctors
          /\ \/ last'.ret = "Username already exists" /\ users' = users
             \/ \A new_username \in {n \in Usernames : UsernameTaken(n)},
                   new_password \in {w \in Passwords : ~WeakPassword(w)},
                   s \in Sessions, reg_role \in {"Patient", "Doctor"}, db \in DbOutcomes :
                  ~RegisterSubmit(s, reg_role, new_username, new_password, new_password, db)]_vars

C10_Witness ==
  /\ last.op = "register" /\ last.ret = "Username already exists"
  /\ Len(users) >= 1

\* C11: a registration whose password has fewer than 6 characters is answered
\* "Password must be at least 6 characters long" and creates no account, so that
\* every stored credential is the hash of a password of 6 characters or more; a
\* registration with a password of exactly 6 characters and a free username
\* creates the account.
C11_WeakPasswordRejected ==
  /\ [](\A i \in DOMAIN users : \E w \in Passwords :
          Len(w) >= MinPasswordLength /\ users[i].password = hash_password(w))
  /\ [][last'.op = "register" =>
          /\ \/ /\ last'.ret = "Password must be at least 6 characters long"
                /\ users' = users /\ doctors' = doctors
             \/ \A s \in Sessions, reg_role \in {"Patient", "Doctor"},
                   new_username \in Usernames, db \in DbOutcomes,
                   new_password \in {w \in Passwords : Len(w) < MinPasswordLength} :
                  ~RegisterSubmit(s, reg_role, new_username, new_password, new_password, db)
          /\ \A new_username \in {n \in Usernames : ~UsernameTaken(n)},
                new_password \in {w \in Passwords : Len(w) = MinPasswordLength} :
               LET Created == /\ Len(users') = Len(users) + 1
                              /\ users'[Len(users')].username = new_username
                              /\ users'[Len(users')].password = hash_password(new_password)
                   Welcomed == last'.ret \in
                                 {"Patient registration successful! Please login.",
                                  "Doctor registration successful! Please login."}
               IN \/ Created /\ Welcomed
                  \/ \A s \in Sessions, reg_role \in {"Patient", "Doctor"}, db \in DbOutcomes :
                       RegisterSubmit(s, reg_role, new_username, new_password, new_password, db)
                         => Created /\ (db = "ok" => Welcomed)]_vars

\* a short password refused after an account was registered with one of 6 characters
C11_Witness ==
  /\ last.op = "register"
  /\ last.ret = "Password must be at least 6 characters long"
  /\ \E i \in DOMAIN users : users[i].password = hash_password("secret")

\* C12: no account of role doctor is without a doctor profile: a registration as
\* doctor leaves the account and its profile, or neither.
C12_NoOrphanDoctorAccount ==
  \A i \in DOMAIN users :
    users[i].role = "doctor" => get_doctor_id(users[i].id) # None

\* a name nobody registers
NeverRegistered == "mallory"

\* C13: verify_user returns an account exactly when an account with the given
\* username is stored and the given password hashes to its stored credential, and
\* then it returns that account's id and role; otherwise it returns None.  The
\* stored username, credential and role are those the account was registered with:
\* a registration stores them and no step changes a stored account.
C13_AuthenticateMatchesRegistration ==
  /\ [](\A username \in Usernames \cup {NeverRegistered},
           password \in Passwords \cup LoginPasswords :
          LET accounts == {i \in DOMAIN users :
                             /\ users[i].username = username
                             /\ users[i].password = hash_password(password)}
          IN IF accounts = {}
               THEN verify_user(username, password) = None
               ELSE \E i \in accounts :
                      verify_user(username, password)
                        = Some([id |-> users[i].id, role |-> users[i].role]))
  /\ [][/\ \A i \in DOMAIN users : users'[i] = users[i]
        /\ Len(users') > Len(users)
             => \E s \in Sessions, reg_role \in {"Patient", "Doctor"},
                   new_username \in Usernames, new_password \in Passwords, db \in DbOutcomes :
                  /\ RegisterSubmit(s, reg_role, new_username, new_password, new_password, db)
                  /\ users'[Len(users')] =
                       [id |-> Len(users) + 1,
                        username |-> new_username,
                        password |-> hash_password(new_password),
                        role |-> IF reg_role = "Doctor" THEN "doctor" ELSE "patient"]]_vars

\* a doctor logged in with the name and password of the registration
C13_Witness ==
  /\ last.op = "login" /\ last.ret = "Login successful!"
  /\ \E i \in DOMAIN users :
       /\ users[i].role = "doctor"
       /\ session_state[last.session] = [user_id |-> Some(users[i].id), role |-> Some("doctor")]

\* C14: a login that fails because the password is wrong for a registered username
\* gives what the same login gives for a username that is not registered: the same
\* return value of verify_user, the same message, the same session.
C14_FailureIndistinguishable ==
  \A tab_role \in {"patient", "doctor"}, password \in Passwords \cup LoginPasswords,
     known \in {n \in Usernames : UsernameTaken(n)},
     unknown \in {n \in Usernames \cup {NeverRegistered} : ~UsernameTaken(n)} :
    verify_user(known, password) = None
      => /\ verify_user(unknown, password) = verify_user(known, password)
         /\ login_outcome(tab_role, unknown, password) = login_outcome(tab_role, known, password)

\* a failed login while one name is registered and another is not
C14_Witness ==
  /\ last.op = "login" /\ last.ret = "Invalid username or password"
  /\ \E known, unknown \in Usernames : UsernameTaken(known) /\ ~UsernameTaken(unknown)

\* C15: a pair (doctor_id, patient_id) is stored at most once: assign_doctor for a
\* pair that is stored returns False and leaves doctor_patient, the first
\* assignment_date included, as it is.
C15_DuplicateAssignmentRejected ==
  /\ [](\A a, b \in doctor_patient :
          (a.doctor_id = b.doctor_id /\ a.patient_id = b.patient_id) => a = b)
  /\ [][last'.op = "assign_doctor" =>
          /\ last'.ret = "False" => doctor_patient' = doctor_patient
          /\ \A doctor_id \in DoctorIdArgs, patient_id \in IdArgs :
               (Assigned(doctor_id, patient_id) /\ AssignDoctorCall(doctor_id, patient_id))
                 => last'.ret = "False" /\ doctor_patient' = doctor_patient]_vars

\* an assignment refused while one is stored
C15_Witness ==
  /\ last.op = "assign_doctor" /\ last.ret = "False"
  /\ doctor_patient # {}

\* C16: every stored assignment refers to a stored doctor profile and to a stored
\* account of role patient.
C16_AssignmentsResolve ==
  \A a \in doctor_patient :
    /\ \E i \in DOMAIN doctors : doctors[i].id = a.doctor_id
    /\ \E i \in DOMAIN users : users[i].id = a.patient_id /\ users[i].role = "patient"

\* C17: the patients get_doctor_patients lists for a doctor are those of the
\* assignments stored for that doctor: each assigned patient_id is listed, and
\* nobody else.
C17_AssignedPatientsListed ==
  \A doctor_id \in DoctorIdArgs :
    {row[1] : row \in get_doctor_patients(doctor_id)}
      = {a.patient_id : a \in {b \in doctor_patient : b.doctor_id = doctor_id}}

\* C18: extract_medical_keywords returns the texts of the kept entities followed by
\* those of the kept noun chunks with the repetitions removed: every candidate is
\* in the result, no term is in it twice, and two terms of the result are in the
\* order of their first occurrences among the candidates.
C18_DedupFirstOccurrence ==
  last.op = "extract_medical_keywords" =>
    LET candidates == KeptEnts(last.doc.ents) \o KeptChunks(last.doc.noun_chunks)
        result == last.ret
        FirstAt(x) == CHOOSE i \in DOMAIN candidates :
                        candidates[i] = x /\ \A j \in 1..(i - 1) : candidates[j] # x
    IN /\ Range(result) = Range(candidates)
       /\ \A i, j \in DOMAIN result : result[i] = result[j] => i = j
       /\ \A i, j \in DOMAIN result : i < j => FirstAt(result[i]) < FirstAt(result[j])

\* "Fever" is an entity and a noun chunk: it stays where the entity put it
C18_Witness ==
  /\ last.op = "extract_medical_keywords"
  /\ KeptEnts(last.doc.ents) \o KeptChunks(last.doc.noun_chunks)
       = <<"Fever", "COPD", "Fever", "chest pain">>
  /\ last.ret = <<"Fever", "COPD", "chest pain">>

\* C19: a review update leaves the addressed record's id, user_id, analysis_date,
\* medical_terms, summary, recommendations and doctor_id as they are, changes no
\* other record, adds and removes none, and leaves the other tables alone.
C19_ReviewFrame ==
  [][IsReview(last') =>
       /\ DOMAIN analysis_history' = DOMAIN analysis_history
       /\ \A i \in DOMAIN analysis_history :
            IF i = last'.id
              THEN [analysis_history'[i] EXCEPT
                      !.status = analysis_history[i].status,
                      !.doctor_notes = analysis_history[i].doctor_notes,
                      !.last_modified = analysis_history[i].last_modified]
                     = analysis_history[i]
              ELSE analysis_history'[i] = analysis_history[i]
       /\ UNCHANGED <<users, doctors, doctor_patient>>]_vars

\* one of two records reviewed, the other untouched
C19_Witness ==
  /\ IsReview(last)
  /\ \E i, j \in DOMAIN analysis_history :
       /\ i = last.id /\ j # i
       /\ analysis_history[i].last_modified = Some(now)
       /\ analysis_history[j].last_modified = None

\* C20: a review update with the status and the notes the record already has from
\* an earlier update leaves its status and notes as they are and sets
\* last_modified to a later time.
C20_ReviewIdempotent ==
  [][IsReview(last') =>
       \A id \in DOMAIN analysis_history \cap {last'.id}, t \in Statuses, n \in Notes :
         (/\ analysis_history[id].status = t
          /\ analysis_history[id].doctor_notes = Some(n)
          /\ ReviewStep(id, t, n))
           => /\ analysis_history'[id].status = analysis_history[id].status
              /\ analysis_history'[id].doctor_notes = analysis_history[id].doctor_notes
              /\ analysis_history[id].last_modified # None
              /\ analysis_history'[id].last_modified # None
              /\ analysis_history'[id].last_modified[1] > analysis_history[id].last_modified[1]]_vars

\* a record updated with the status and the notes it had
C20_Witness ==
  /\ IsReview(last)
  /\ \E i \in DOMAIN analysis_history :
       /\ i = last.id
       /\ last.was = analysis_history[i].status
       /\ last.noted = analysis_history[i].doctor_notes
       /\ analysis_history[i].doctor_notes = Some("looks fine")
       /\ analysis_history[i].last_modified = Some(now)

\* C21: when the updates of two doctors to one record interleave, each write puts
\* the status and the notes of its own call into the record, whatever the other
\* doctor read or wrote in between: a reviewed record holds the status and the
\* notes of the call committed last, never the status of one call with the notes
\* of another.
C21_LastWriteWins ==
  /\ [](last.op = "update_review" =>
          /\ session_state[last.session].written # None
          /\ LET call == session_state[last.session].written[1]
             IN /\ call.analysis_id = last.id
                /\ analysis_history[last.id].status = call.status
                /\ analysis_history[last.id].doctor_notes = Some(call.doctor_notes)
                /\ analysis_history[last.id].last_modified = Some(now))
  /\ [](\A i \in DOMAIN analysis_history :
          analysis_history[i].last_modified # None
            => \E s \in ReviewSessions :
                 /\ session_state[s].written # None
                 /\ session_state[s].written[1].analysis_id = i
                 /\ session_state[s].written[1].status = analysis_history[i].status
                 /\ Some(session_state[s].written[1].doctor_notes)
                      = analysis_history[i].doctor_notes)

\* both doctors read the untouched record, then one wrote and the other wrote
\* another status and other notes
C21_Witness ==
  /\ last.op = "update_review"
  /\ \E s, t \in ReviewSessions :
       /\ s = last.session /\ t # s
       /\ session_state[s].written # None /\ session_state[t].written # None
       /\ session_state[s].written[1].seen = <<"pending", None>>
       /\ session_state[t].written[1].seen = <<"pending", None>>
       /\ session_state[s].written[1].status # session_state[t].written[1].status
       /\ session_state[s].written[1].doctor_notes # session_state[t].written[1].doctor_notes
       /\ session_state[s].written[1].analysis_id = session_state[t].written[1].analysis_id

\* the account logged in in session s is a doctor without a row in doctors
NoProfile(s) ==
  /\ IsDoctorSession(s)
  /\ ~\E i \in DOMAIN doctors : doctors[i].user_id = session_state[s].user_id[1]

\* C22: in the session of a doctor account without a profile the dashboard shows
\* "Doctor account not properly configured" and nothing else: no patient is
\* listed, no "Update Review" button is there to press, no record changes.
C22_NoProfileNoReview ==
  [][(last'.op \in {"doctor_interface", "update_review"} /\ NoProfile(last'.session))
       => /\ last'.op = "doctor_interface"
          /\ last'.ret = "Doctor account not properly configured"
          /\ analysis_history' = analysis_history]_vars

\* a doctor without a profile at the dashboard, while a record is stored
C22_Witness ==
  /\ last.op = "doctor_interface"
  /\ last.ret = "Doctor account not properly configured"
  /\ NoProfile(last.session)
  /\ analysis_history # <<>>

\* C23: a session's user_id and role are both None or both set, and when set the
\* role is the one stored for the account of that user_id; a login that does not
\* succeed (a doctor's credentials in the Patient tab, a patient's in the Doctor
\* tab included) leaves the session as it was, logged out; a logout sets both
\* to None.
C23_SessionRoleMatchesAccount ==
  /\ [](\A s \in Sessions :
          /\ session_state[s].user_id = None <=> session_state[s].role = None
          /\ session_state[s].user_id # None
               => \E i \in DOMAIN users :
                    /\ users[i].id = session_state[s].user_id[1]
                    /\ Some(users[i].role) = session_state[s].role)
  /\ [](\A tab_role \in {"patient", "doctor"}, username \in Usernames,
           password \in Passwords \cup LoginPasswords :
          LET user == verify_user(username, password)
          IN (user # None /\ user[1].role # tab_role)
               => login_outcome(tab_role, username, password)
                    = [user |-> None, message |-> "Invalid username or password"])
  /\ [][/\ (last'.op = "login" /\ last'.ret # "Login successful!")
             => /\ session_state' = session_state
                /\ session_state[last'.session] = LoggedOut
        /\ last'.op = "logout" => session_state'[last'.session] = LoggedOut]_vars

\* the credentials of an account accepted by verify_user and refused by the tab
C23_Witness ==
  /\ last.op = "login" /\ last.ret = "Invalid username or password"
  /\ last.id \in DOMAIN users
  /\ session_state[last.session] = LoggedOut

=============================================================================
